---------------------------- MODULE Spec2Model ----------------------------
(***************************************************************************)
(* Model of GEB's HRUs.py: the compressed grid (Grid), the HRU builder     *)
(* (HRUs.create_HRUs_numba), HRUs.decompress, the grid <-> HRU converters   *)
(* (Data.to_HRU, Data.to_grid and their numba helpers) and the HRU         *)
(* splitter (Data.split_HRU).                                              *)
(*                                                                         *)
(* NumPy arrays are functions with domain 0..n-1; 2-D arrays are functions *)
(* of <<row, column>>.  Floating point values are exact rationals, written *)
(* <<numerator, denominator>> in lowest terms with a positive denominator. *)
(***************************************************************************)
EXTENDS Integers, Sequences, FiniteSets, TLC

\* ------------------------------------------------------------------------
\* Sizes of the modelled study area and the bounds on the inputs
\* ------------------------------------------------------------------------
ysize == 1

xsize == 2

scaling == 2

\* at most MaxVaried sub-cells of the two rasters are anything but an unowned
\* sub-cell of land use class 0
MaxVaried == 2

\* values of a grid array handed to the converters are 0..MaxVal
MaxVal == 2

None == "None"

nan == "nan"

\* np.full(size, -1, dtype=np.uint32) stores 2^32 - 1 in every entry; the largest
\* integer of the model checker stands for it (it is larger than any unit index)
UNSET_UINT32 == 2147483647

\* ------------------------------------------------------------------------
\* Arrays
\* ------------------------------------------------------------------------
Size(a) == Cardinality(DOMAIN a)

full(n, v) == [k \in 0..(n - 1) |-> v]

\* a[lo:hi]
Slice(a, lo, hi) == [k \in 0..(hi - lo - 1) |-> a[lo + k]]

\* a[:n]
Truncate(a, n) == [k \in 0..(n - 1) |-> a[k]]

RECURSIVE SumTo(_, _)
SumTo(a, n) == IF n = 0 THEN 0 ELSE a[n - 1] + SumTo(a, n - 1)

\* a.sum() of an integer array
Sum(a) == SumTo(a, Size(a))

\* np.append(a, v) in the place of np.insert(a, i, v)
Insert_appending(a, i, v) ==
    [k \in 0..Size(a) |-> IF k < Size(a) THEN a[k] ELSE v]

\* np.insert(a, i, v) for a 1-D array
Insert(a, i, v) ==
    [k \in 0..Size(a) |-> IF k < i THEN a[k] ELSE IF k = i THEN v ELSE a[k - 1]]

\* array.ravel() of a 2-D array with ncols columns
Ravel(a, nrows, ncols) ==
    [p \in 0..(nrows * ncols - 1) |-> a[<<p \div ncols, p % ncols>>]]

\* array.reshape((nrows, ncols)) of a flat array
Reshape(a, nrows, ncols) ==
    [rc \in (0..(nrows - 1)) \X (0..(ncols - 1)) |-> a[rc[1] * ncols + rc[2]]]

\* ------------------------------------------------------------------------
\* Exact arithmetic for the float arrays
\* ------------------------------------------------------------------------
Abs(n) == IF n < 0 THEN -n ELSE n

RECURSIVE GCD(_, _)
GCD(a, b) == IF b = 0 THEN a ELSE GCD(b, a % b)

Rat(n, d) ==
    LET g == GCD(Abs(n), Abs(d))
        s == IF d < 0 THEN -1 ELSE 1
    IN  <<(s * n) \div g, (s * d) \div g>>

RInt(n) == <<n, 1>>

RAdd(p, q) == Rat(p[1] * q[2] + q[1] * p[2], p[2] * q[2])

RSub(p, q) == Rat(p[1] * q[2] - q[1] * p[2], p[2] * q[2])

RMul(p, q) == Rat(p[1] * q[1], p[2] * q[2])

RDiv(p, q) == Rat(p[1] * q[2], p[2] * q[1])

RECURSIVE RSumTo(_, _)
RSumTo(a, n) == IF n = 0 THEN RInt(0) ELSE RAdd(RSumTo(a, n - 1), a[n - 1])

\* a.sum() of a float array
RSum(a) == RSumTo(a, Size(a))

\* ------------------------------------------------------------------------
\* The state
\* ------------------------------------------------------------------------
VARIABLES
    pc,                       \* position of the run
    mask,                     \* Grid.mask, 2-D, TRUE = outside the study area
    farms,                    \* farms.tif, 2-D at HRU resolution
    land_use_classes,         \* land_use_classes.tif, 2-D at HRU resolution
    land_use_type,            \* HRUs.land_use_type
    land_use_ratio,           \* HRUs.land_use_ratio
    land_owners,              \* HRUs.land_owners
    HRU_to_grid,              \* HRUs.HRU_to_grid
    var_to_HRU,               \* HRUs.var_to_HRU
    var_to_HRU_uncompressed,  \* HRUs.var_to_HRU_uncompressed
    unmerged_HRU_indices,     \* HRUs.unmerged_HRU_indices
    cellArea,                 \* HRUs.cellArea
    old,                      \* the HRU structures as they were when the last call began
    last,                     \* the last call and how it ended
    array,                    \* a grid array held by the caller of Grid
    dtype,                    \* its element type, "int" or "float"
    fillvalue,                \* the fill value the caller passes to Grid.decompress
    outmap,                   \* what Grid.decompress returned
    compressed,               \* what Grid.compress returned for outmap
    grid_data,                \* the grid array handed to Data.to_HRU
    to_HRU_fn,                \* the fn handed to Data.to_HRU
    HRU_data,                 \* what Data.to_HRU returned, then handed to Data.to_grid
    to_grid_fn,               \* the fn handed to Data.to_grid
    outdata,                  \* what Data.to_grid returned
    at_update_field_indices,  \* the HRU structures when split_HRU called the farmers
    decompresssed,            \* what HRUs.decompress returned
    grid_vars,                \* the variables held by name on Data.grid
    HRU_vars,                 \* the variables held by name on Data.HRU
    call,                     \* the arguments of the last call by keyword
    returned,                 \* what that call returned
    computed                  \* the output elements it had computed when it ended

hru == <<land_use_type, land_use_ratio, land_owners, HRU_to_grid, var_to_HRU,
         var_to_HRU_uncompressed, unmerged_HRU_indices, cellArea>>

caller == <<array, dtype, fillvalue, outmap, compressed>>

converted == <<grid_data, to_HRU_fn, HRU_data, to_grid_fn, outdata>>

named == <<grid_vars, HRU_vars, call, returned, computed>>

vars == <<pc, mask, farms, land_use_classes, hru, old, last, caller, converted,
          at_update_field_indices, decompresssed, named>>

\* ------------------------------------------------------------------------
\* Grid
\* ------------------------------------------------------------------------
mask_flat == Ravel(mask, ysize, xsize)

compressed_size == Size(mask_flat) - Cardinality({p \in DOMAIN mask_flat : mask_flat[p]})

\* position of flat cell p among the cells with mask_flat == False
NonMaskedBefore(p) == Cardinality({q \in 0..(p - 1) : ~mask_flat[q]})

\* the flat position of the k-th cell with mask_flat == False
NonMaskedAt(k) == CHOOSE p \in DOMAIN mask_flat : ~mask_flat[p] /\ NonMaskedBefore(p) = k

compress(a) ==
    LET flat == Ravel(a, ysize, xsize)
    IN  [k \in 0..(compressed_size - 1) |-> flat[NonMaskedAt(k)]]

\* A fill value is <<"default">> (fillvalue=None), <<"nan">> or <<"num", n>>.
\* The fill value Grid.decompress uses for an array of type dt:
DefaultFill(fv, dt) ==
    IF fv[1] = "default" THEN (IF dt = "float" THEN <<"nan">> ELSE <<"num", 0>>) ELSE fv

\* np.full(shape, fv, dtype=dt) raises for a NaN in an integer array
CanFill(fv, dt) == ~(DefaultFill(fv, dt)[1] = "nan" /\ dt = "int")

\* decompress scattering the compressed values in reverse order
decompress_reversed(a, dt, fv) ==
    LET fill == DefaultFill(fv, dt)
        v    == IF fill[1] = "nan" THEN nan ELSE fill[2]
        flat == [p \in DOMAIN mask_flat |->
                    IF mask_flat[p] THEN v ELSE a[Size(a) - 1 - NonMaskedBefore(p)]]
    IN  Reshape(flat, ysize, xsize)

decompress(a, dt, fv) ==
    LET fill == DefaultFill(fv, dt)
        v    == IF fill[1] = "nan" THEN nan ELSE fill[2]
        flat == [p \in DOMAIN mask_flat |->
                    IF mask_flat[p] THEN v ELSE a[NonMaskedBefore(p)]]
    IN  Reshape(flat, ysize, xsize)

\* ------------------------------------------------------------------------
\* HRUs.create_HRUs_numba
\* ------------------------------------------------------------------------
LandUseClasses == {0, 1, 4, 5}

\* farms[y*scaling:(y+1)*scaling, x*scaling:(x+1)*scaling].ravel()
CellBlock(raster, y, x) ==
    [k \in 0..(scaling * scaling - 1) |->
        raster[<<y * scaling + (k \div scaling), x * scaling + (k % scaling)>>]]

SubcellPermutations ==
    LET I == 0..(scaling * scaling - 1)
    IN  {p \in [I -> I] : \A a, b \in I : a # b => p[a] # p[b]}

\* argsort sorting in descending order
argsort_descending(keys) ==
    {p \in SubcellPermutations :
        \A i \in 0..(Size(keys) - 2) : keys[p[i]] >= keys[p[i + 1]]}

\* np.argsort(keys): an index array that sorts keys; the default sort is not
\* stable, so any order among equal keys is a possible result
argsort(keys) ==
    {p \in SubcellPermutations :
        \A i \in 0..(Size(keys) - 2) : keys[p[i]] <= keys[p[i + 1]]}

\* a[sort_idx]
Take(a, sort_idx) == [i \in DOMAIN sort_idx |-> a[sort_idx[i]]]

\* the local variables of create_HRUs_numba before the loop over the cells
BuilderLocals(frm, luc, msk) ==
    LET size == Cardinality(DOMAIN frm)
        n_nonmasked_cells ==
            Cardinality(DOMAIN msk) - Cardinality({c \in DOMAIN msk : msk[c]})
    IN  [ok |-> /\ size = Cardinality(DOMAIN msk) * scaling * scaling
                /\ size = Cardinality(DOMAIN luc),
         var_to_HRU |-> full(n_nonmasked_cells, -1),
         var_to_HRU_uncompressed |-> full(Cardinality(DOMAIN msk), -1),
         HRU_to_grid |-> full(size, -1),
         land_use_array |-> full(size, -1),
         land_use_size |-> full(size, -1),
         land_use_owner |-> full(size, -1),
         unmerged_HRU_indices |-> full(size, UNSET_UINT32),
         j |-> 0,
         var_cell_count_compressed |-> 0,
         l |-> 0,
         var_cell_count_uncompressed |-> 0]

\* the loop over the sub-cells of one cell sorted by farm, from step i on
RECURSIVE FarmLoop(_, _, _, _, _, _)
FarmLoop(b, cell_farms_sorted, cell_land_use_classes_sorted, sort_idx, prev_farm, i) ==
    IF i = Size(cell_farms_sorted) \/ ~b.ok THEN b
    ELSE
        LET farm     == cell_farms_sorted[i]
            land_use == cell_land_use_classes_sorted[i]
            pos      == sort_idx[i] + b.var_cell_count_compressed * (scaling * scaling)
        IN  IF farm = -1 THEN
                FarmLoop(b, cell_farms_sorted, cell_land_use_classes_sorted,
                         sort_idx, prev_farm, i + 1)
            ELSE IF farm # prev_farm THEN
                IF b.land_use_array[b.j] # -1 \/ b.land_use_size[b.j] # -1 THEN
                    [b EXCEPT !.ok = FALSE]
                ELSE
                    FarmLoop([b EXCEPT !.land_use_array[b.j] = land_use,
                                       !.land_use_size[b.j] = 1,
                                       !.land_use_owner[b.j] = farm,
                                       !.HRU_to_grid[b.j] = b.var_cell_count_compressed,
                                       !.j = b.j + 1,
                                       !.unmerged_HRU_indices[pos] = (b.j + 1) - 1,
                                       !.l = b.l + 1],
                             cell_farms_sorted, cell_land_use_classes_sorted,
                             sort_idx, farm, i + 1)
            ELSE
                FarmLoop([b EXCEPT !.land_use_size[b.j - 1] = @ + 1,
                                   !.unmerged_HRU_indices[pos] = b.j - 1,
                                   !.l = b.l + 1],
                         cell_farms_sorted, cell_land_use_classes_sorted,
                         sort_idx, prev_farm, i + 1)

\* LandUseLoop_uncompressed_count writing the count of all cells, masked or not, to HRU_to_grid
RECURSIVE LandUseLoop_uncompressed_count(_, _, _, _, _, _)
LandUseLoop_uncompressed_count(b, cell_farms_sorted, cell_land_use_classes_sorted, sort_idx, prev_land_use, i) ==
    IF i = Size(cell_farms_sorted) \/ ~b.ok THEN b
    ELSE
        LET land_use == cell_land_use_classes_sorted[i]
            farm     == cell_farms_sorted[i]
            pos      == sort_idx[i] + b.var_cell_count_compressed * (scaling * scaling)
        IN  IF farm # -1 THEN
                LandUseLoop_uncompressed_count(b, cell_farms_sorted, cell_land_use_classes_sorted,
                            sort_idx, prev_land_use, i + 1)
            ELSE IF land_use # prev_land_use THEN
                IF b.land_use_array[b.j] # -1 \/ b.land_use_size[b.j] # -1 THEN
                    [b EXCEPT !.ok = FALSE]
                ELSE
                    LandUseLoop_uncompressed_count([b EXCEPT !.land_use_array[b.j] = land_use,
                                          !.land_use_size[b.j] = 1,
                                          !.HRU_to_grid[b.j] = b.var_cell_count_uncompressed,
                                          !.j = b.j + 1,
                                          !.unmerged_HRU_indices[pos] = (b.j + 1) - 1,
                                          !.l = b.l + 1],
                                cell_farms_sorted, cell_land_use_classes_sorted,
                                sort_idx, land_use, i + 1)
            ELSE
                LandUseLoop_uncompressed_count([b EXCEPT !.land_use_size[b.j - 1] = @ + 1,
                                      !.unmerged_HRU_indices[pos] = b.j - 1,
                                      !.l = b.l + 1],
                            cell_farms_sorted, cell_land_use_classes_sorted,
                            sort_idx, prev_land_use, i + 1)

\* the loop over the sub-cells of one cell sorted by land use, from step i on
RECURSIVE LandUseLoop(_, _, _, _, _, _)
LandUseLoop(b, cell_farms_sorted, cell_land_use_classes_sorted, sort_idx, prev_land_use, i) ==
    IF i = Size(cell_farms_sorted) \/ ~b.ok THEN b
    ELSE
        LET land_use == cell_land_use_classes_sorted[i]
            farm     == cell_farms_sorted[i]
            pos      == sort_idx[i] + b.var_cell_count_compressed * (scaling * scaling)
        IN  IF farm # -1 THEN
                LandUseLoop(b, cell_farms_sorted, cell_land_use_classes_sorted,
                            sort_idx, prev_land_use, i + 1)
            ELSE IF land_use # prev_land_use THEN
                IF b.land_use_array[b.j] # -1 \/ b.land_use_size[b.j] # -1 THEN
                    [b EXCEPT !.ok = FALSE]
                ELSE
                    LandUseLoop([b EXCEPT !.land_use_array[b.j] = land_use,
                                          !.land_use_size[b.j] = 1,
                                          !.HRU_to_grid[b.j] = b.var_cell_count_compressed,
                                          !.j = b.j + 1,
                                          !.unmerged_HRU_indices[pos] = (b.j + 1) - 1,
                                          !.l = b.l + 1],
                                cell_farms_sorted, cell_land_use_classes_sorted,
                                sort_idx, land_use, i + 1)
            ELSE
                LandUseLoop([b EXCEPT !.land_use_size[b.j - 1] = @ + 1,
                                      !.unmerged_HRU_indices[pos] = b.j - 1,
                                      !.l = b.l + 1],
                            cell_farms_sorted, cell_land_use_classes_sorted,
                            sort_idx, prev_land_use, i + 1)

\* the end of the body of the loop over x: both end-index arrays are written
EndOfCell(b, is_masked) ==
    IF ~b.ok THEN b
    ELSE
        LET b1 == IF is_masked THEN b
                  ELSE [b EXCEPT !.var_to_HRU[b.var_cell_count_compressed] = b.j,
                                 !.var_cell_count_compressed = @ + 1]
        IN  [b1 EXCEPT !.var_to_HRU_uncompressed[b.var_cell_count_uncompressed] = b.j,
                       !.var_cell_count_uncompressed = @ + 1]

\* the possible locals after the body of the loops for cell (y, x)
CellBody(b, frm, luc, msk, y, x) ==
    LET is_masked == msk[<<y, x>>]
    IN  IF ~b.ok THEN {b}
        ELSE IF is_masked THEN {EndOfCell(b, is_masked)}
        ELSE
            LET cell_farms == CellBlock(frm, y, x)
                cell_land_use_classes == CellBlock(luc, y, x)
            IN  IF \E k \in DOMAIN cell_land_use_classes :
                       cell_land_use_classes[k] \notin LandUseClasses
                THEN {[b EXCEPT !.ok = FALSE]}
                ELSE
                    LET owned ==
                            {FarmLoop(b, Take(cell_farms, s),
                                      Take(cell_land_use_classes, s), s, -1, 0) :
                                s \in argsort(cell_farms)}
                        both ==
                            UNION {{LandUseLoop(
                                        [b1 EXCEPT !.ok = @ /\ -1 # cell_land_use_classes[0]],
                                        Take(cell_farms, s),
                                        Take(cell_land_use_classes, s), s, -1, 0) :
                                      s \in argsort(cell_land_use_classes)} : b1 \in owned}
                    IN  {EndOfCell(b2, is_masked) : b2 \in both}

\* the loops over y and x, from flat cell c on, for every b in the set B
RECURSIVE CellLoop(_, _, _, _, _)
CellLoop(B, frm, luc, msk, c) ==
    IF c = ysize * xsize THEN B
    ELSE CellLoop(UNION {CellBody(b, frm, luc, msk, c \div xsize, c % xsize) : b \in B},
                  frm, luc, msk, c + 1)

\* BuilderResult dividing the sub-cell counts by scaling, not by scaling ** 2
BuilderResult_ratio_by_edge(b) ==
    IF ~b.ok THEN [ok |-> FALSE]
    ELSE
        LET land_use_size == Truncate(b.land_use_size, b.j)
            n_subcells == b.var_cell_count_compressed * (scaling * scaling)
        IN  IF Sum(land_use_size) # Size(b.var_to_HRU) * (scaling * scaling)
            THEN [ok |-> FALSE]
            ELSE [ok |-> TRUE,
                  land_use_array |-> Truncate(b.land_use_array, b.j),
                  land_use_ratio |->
                      [u \in DOMAIN land_use_size |-> Rat(land_use_size[u], scaling)],
                  land_use_owner |-> Truncate(b.land_use_owner, b.j),
                  HRU_to_grid |-> Truncate(b.HRU_to_grid, b.j),
                  var_to_HRU |-> b.var_to_HRU,
                  var_to_HRU_uncompressed |-> b.var_to_HRU_uncompressed,
                  unmerged_HRU_indices |-> Truncate(b.unmerged_HRU_indices, n_subcells)]

\* BuilderResult cutting unmerged_HRU_indices at j like the per-unit arrays
BuilderResult_cut_at_j(b) ==
    IF ~b.ok THEN [ok |-> FALSE]
    ELSE
        LET land_use_size == Truncate(b.land_use_size, b.j)
        IN  IF Sum(land_use_size) # Size(b.var_to_HRU) * (scaling * scaling)
            THEN [ok |-> FALSE]
            ELSE [ok |-> TRUE,
                  land_use_array |-> Truncate(b.land_use_array, b.j),
                  land_use_ratio |->
                      [u \in DOMAIN land_use_size |->
                          Rat(land_use_size[u], scaling * scaling)],
                  land_use_owner |-> Truncate(b.land_use_owner, b.j),
                  HRU_to_grid |-> Truncate(b.HRU_to_grid, b.j),
                  var_to_HRU |-> b.var_to_HRU,
                  var_to_HRU_uncompressed |-> b.var_to_HRU_uncompressed,
                  unmerged_HRU_indices |-> Truncate(b.unmerged_HRU_indices, b.j)]

\* what create_HRUs_numba returns, or ok = FALSE when an assertion fails
BuilderResult(b) ==
    IF ~b.ok THEN [ok |-> FALSE]
    ELSE
        LET land_use_size == Truncate(b.land_use_size, b.j)
            n_subcells == b.var_cell_count_compressed * (scaling * scaling)
        IN  IF Sum(land_use_size) # Size(b.var_to_HRU) * (scaling * scaling)
            THEN [ok |-> FALSE]
            ELSE [ok |-> TRUE,
                  land_use_array |-> Truncate(b.land_use_array, b.j),
                  land_use_ratio |->
                      [u \in DOMAIN land_use_size |->
                          Rat(land_use_size[u], scaling * scaling)],
                  land_use_owner |-> Truncate(b.land_use_owner, b.j),
                  HRU_to_grid |-> Truncate(b.HRU_to_grid, b.j),
                  var_to_HRU |-> b.var_to_HRU,
                  var_to_HRU_uncompressed |-> b.var_to_HRU_uncompressed,
                  unmerged_HRU_indices |-> Truncate(b.unmerged_HRU_indices, n_subcells)]

\* the set of results create_HRUs_numba can return for these rasters
create_HRUs_numba(frm, luc, msk) ==
    {BuilderResult(b) : b \in CellLoop({BuilderLocals(frm, luc, msk)}, frm, luc, msk, 0)}

\* ------------------------------------------------------------------------
\* HRUs.decompress_HRU_numba and HRUs.decompress
\* ------------------------------------------------------------------------
\* the loops of decompress_HRU_numba with ys and xs exchanged in the target
RECURSIVE DecompressLoop_transposed(_, _, _, _, _, _)
DecompressLoop_transposed(outarray, HRU_array, unmerged, msk, i, k) ==
    IF k = ysize * xsize * scaling * scaling THEN outarray
    ELSE
        LET y  == (k \div (scaling * scaling)) \div xsize
            x  == (k \div (scaling * scaling)) % xsize
            ys == (k % (scaling * scaling)) \div scaling
            xs == (k % (scaling * scaling)) % scaling
        IN  IF msk[<<y, x>>]
            THEN DecompressLoop_transposed(outarray, HRU_array, unmerged, msk, i, k + 1)
            ELSE DecompressLoop_transposed(
                     [outarray EXCEPT ![<<y * scaling + xs, x * scaling + ys>>] =
                         HRU_array[unmerged[i]]],
                     HRU_array, unmerged, msk, i + 1, k + 1)

\* the loops of decompress_HRU_numba over y, x, ys and xs, from step k on: step
\* k is sub-cell (ys, xs) of cell (y, x), and i counts the sub-cells written
RECURSIVE DecompressLoop(_, _, _, _, _, _)
DecompressLoop(outarray, HRU_array, unmerged, msk, i, k) ==
    IF k = ysize * xsize * scaling * scaling THEN outarray
    ELSE
        LET y  == (k \div (scaling * scaling)) \div xsize
            x  == (k \div (scaling * scaling)) % xsize
            ys == (k % (scaling * scaling)) \div scaling
            xs == (k % (scaling * scaling)) % scaling
        IN  IF msk[<<y, x>>]
            THEN DecompressLoop(outarray, HRU_array, unmerged, msk, i, k + 1)
            ELSE DecompressLoop(
                     [outarray EXCEPT ![<<y * scaling + ys, x * scaling + xs>>] =
                         HRU_array[unmerged[i]]],
                     HRU_array, unmerged, msk, i + 1, k + 1)

decompress_HRU_numba(HRU_array, outarray, unmerged, msk) ==
    DecompressLoop(outarray, HRU_array, unmerged, msk, 0, 0)

\* HRUs.decompress(HRU_array) for an array of element type dt
HRUs_decompress(HRU_array, dt, unmerged, msk) ==
    LET nanvalue == IF dt = "int" THEN -1 ELSE nan
        decompressed_full ==
            [p \in (0..(ysize * scaling - 1)) \X (0..(xsize * scaling - 1)) |-> nanvalue]
    IN  decompress_HRU_numba(HRU_array, decompressed_full, unmerged, msk)

\* ------------------------------------------------------------------------
\* Data.to_HRU_numba and Data.to_grid_numba
\* ------------------------------------------------------------------------
\* the first unit of cell i: prev_index at iteration i of the converters' loops
PrevIndex(v2h, i) == IF i = 0 THEN 0 ELSE v2h[i - 1]

\* the loop of to_HRU_numba copying data[i] to every unit whatever fn is
RECURSIVE ToHRULoop_copying(_, _, _, _, _, _)
ToHRULoop_copying(output_data, data, v2h, lur, fn, i) ==
    IF i = Size(v2h) THEN output_data
    ELSE
        LET prev_index == PrevIndex(v2h, i)
            cell_index == v2h[i]
            cell_sizes == Slice(lur, prev_index, cell_index)
        IN  ToHRULoop_copying(
                [u \in DOMAIN output_data |->
                    IF prev_index <= u /\ u < cell_index
                    THEN data[i]
                    ELSE output_data[u]],
                data, v2h, lur, fn, i + 1)

\* the loop of to_HRU_numba over the cells, from cell i on
RECURSIVE ToHRULoop(_, _, _, _, _, _)
ToHRULoop(output_data, data, v2h, lur, fn, i) ==
    IF i = Size(v2h) THEN output_data
    ELSE
        LET prev_index == PrevIndex(v2h, i)
            cell_index == v2h[i]
            cell_sizes == Slice(lur, prev_index, cell_index)
        IN  ToHRULoop(
                [u \in DOMAIN output_data |->
                    IF prev_index <= u /\ u < cell_index
                    THEN IF fn = None THEN data[i]
                         ELSE RMul(RDiv(data[i], RSum(cell_sizes)), cell_sizes[u - prev_index])
                    ELSE output_data[u]],
                data, v2h, lur, fn, i + 1)

to_HRU_numba(data, v2h, lur, fn) ==
    IF Size(v2h) = 0 \/ v2h[Size(v2h) - 1] # Size(lur) \/ Size(data) # Size(v2h)
    THEN [raised |-> "AssertionError", computed |-> 0]
    ELSE IF fn \in {None, "mean"} THEN
        [raised |-> None,
         output_data |-> ToHRULoop(full(Size(lur), RInt(0)), data, v2h, lur, fn, 0),
         computed |-> Size(lur)]
    ELSE [raised |-> "NotImplementedError", computed |-> 0]

RLeq(p, q) == p[1] * q[2] <= q[1] * p[2]

RMax(a) == a[CHOOSE k \in DOMAIN a : \A m \in DOMAIN a : RLeq(a[m], a[k])]

RMin(a) == a[CHOOSE k \in DOMAIN a : \A m \in DOMAIN a : RLeq(a[k], a[m])]

\* ReduceCell whose mean ignores the weights
ReduceCell_unweighted(values, weights, fn) ==
    IF fn = "mean" THEN RDiv(RSum(values), RInt(Size(values)))
    ELSE IF fn \in {"sum", "nansum"} THEN RSum(values)
    ELSE IF fn = "max" THEN RMax(values)
    ELSE RMin(values)

\* output_data[i] of to_grid_numba
ReduceCell(values, weights, fn) ==
    IF fn = "mean" THEN
        RDiv(RSum([k \in DOMAIN values |-> RMul(values[k], weights[k])]), RSum(weights))
    ELSE IF fn \in {"sum", "nansum"} THEN RSum(values)
    ELSE IF fn = "max" THEN RMax(values)
    ELSE RMin(values)

\* the names of the reductions to_grid_numba knows
Reductions == {"mean", "sum", "nansum", "max", "min"}

\* an entry of np.empty that has not been written
Unwritten == <<0, 0>>

\* the loop of to_grid_numba testing fn in the last iteration only
RECURSIVE ToGridLoop_testing_last(_, _, _, _, _, _)
ToGridLoop_testing_last(output_data, data, v2h, lur, fn, i) ==
    IF i = Size(v2h)
    THEN [raised |-> None, output_data |-> output_data, computed |-> i]
    ELSE IF fn \notin Reductions /\ i = Size(v2h) - 1
    THEN [raised |-> "NotImplementedError", computed |-> i]
    ELSE ToGridLoop_testing_last(
             [output_data EXCEPT ![i] =
                 ReduceCell(Slice(data, PrevIndex(v2h, i), v2h[i]),
                            Slice(lur, PrevIndex(v2h, i), v2h[i]), fn)],
             data, v2h, lur, fn, i + 1)

\* the loop of to_grid_numba over the cells, from cell i on; computed counts
\* the entries of output_data written when the loop ends
RECURSIVE ToGridLoop(_, _, _, _, _, _)
ToGridLoop(output_data, data, v2h, lur, fn, i) ==
    IF i = Size(v2h)
    THEN [raised |-> None, output_data |-> output_data, computed |-> i]
    ELSE IF fn \notin Reductions
    THEN [raised |-> "NotImplementedError", computed |-> i]
    ELSE ToGridLoop(
             [output_data EXCEPT ![i] =
                 ReduceCell(Slice(data, PrevIndex(v2h, i), v2h[i]),
                            Slice(lur, PrevIndex(v2h, i), v2h[i]), fn)],
             data, v2h, lur, fn, i + 1)

to_grid_numba(data, v2h, lur, fn) ==
    IF Size(v2h) = 0 \/ v2h[Size(v2h) - 1] # Size(lur)
    THEN [raised |-> "AssertionError", computed |-> 0]
    ELSE ToGridLoop(full(Size(v2h), Unwritten), data, v2h, lur, fn, 0)

\* ------------------------------------------------------------------------
\* Data.to_HRU and Data.to_grid called by keyword
\* ------------------------------------------------------------------------
\* what a caller or a container can hold: a Python float, a Python int, an
\* array, None, or no attribute of that name
PyFloat(x) == [kind |-> "float", value |-> x]

PyInt(n) == [kind |-> "int", value |-> <<n>>]

Array(a) == [kind |-> "array", value |-> a]

NoValue == [kind |-> "None", value |-> <<>>]

Absent == [kind |-> "absent", value |-> <<>>]

\* the names of the variables the containers can hold
Names == {"v"}

\* the attributes Data.__init__ sets on a Data object
DataAttributes == {"model", "grid", "HRU", "modflow"}

\* how a call ends when an exception leaves it at a place where the containers
\* are g and h
Raises(exception, n, g, h) ==
    [raised |-> exception, returned |-> NoValue, computed |-> n,
     grid_vars |-> g, HRU_vars |-> h]

\* Data.to_HRU(data=data, varname=varname, fn=fn, delete=delete)
Data_to_HRU(data, varname, fn, delete) ==
    IF (data.kind # "None") = (varname # None)
    THEN Raises("AssertionError", 0, grid_vars, HRU_vars)
    ELSE IF varname # None /\ grid_vars[varname].kind = "absent"
    THEN Raises("AttributeError", 0, grid_vars, HRU_vars)
    ELSE
        LET d == IF varname # None THEN grid_vars[varname] ELSE data
            r == IF d.kind \in {"float", "int"}
                 THEN [raised |-> None, outdata |-> d, computed |-> 0]
                 ELSE LET o == to_HRU_numba(d.value, var_to_HRU, land_use_ratio, fn)
                      IN  IF o.raised # None THEN o
                          ELSE [raised |-> None, outdata |-> Array(o.output_data),
                                computed |-> o.computed]
        IN  IF r.raised # None THEN Raises(r.raised, r.computed, grid_vars, HRU_vars)
            ELSE [raised |-> None, returned |-> r.outdata, computed |-> r.computed,
                  grid_vars |-> IF varname # None /\ delete
                                THEN [grid_vars EXCEPT ![varname] = Absent]
                                ELSE grid_vars,
                  HRU_vars |-> IF varname # None
                               THEN [HRU_vars EXCEPT ![varname] = r.outdata]
                               ELSE HRU_vars]

\* Data.to_grid(HRU_data=HRU_data, varname=varname, fn=fn, delete=delete)
Data_to_grid(data, varname, fn, delete) ==
    IF (data.kind # "None") = (varname # None) \/ fn = None
    THEN Raises("AssertionError", 0, grid_vars, HRU_vars)
    ELSE IF varname # None /\ HRU_vars[varname].kind = "absent"
    THEN Raises("AttributeError", 0, grid_vars, HRU_vars)
    ELSE
        LET d == IF varname # None THEN HRU_vars[varname] ELSE data
            r == IF d.kind = "float"
                 THEN [raised |-> None, outdata |-> d, computed |-> 0]
                 ELSE IF d.kind = "int"
                 \* to_grid_numba cannot be compiled for an integer argument
                 THEN [raised |-> "TypingError", computed |-> 0]
                 ELSE LET o == to_grid_numba(d.value, var_to_HRU, land_use_ratio, fn)
                      IN  IF o.raised # None THEN o
                          ELSE [raised |-> None, outdata |-> Array(o.output_data),
                                computed |-> o.computed]
        IN  IF r.raised # None THEN Raises(r.raised, r.computed, grid_vars, HRU_vars)
            ELSE IF varname = None
            THEN [raised |-> None, returned |-> r.outdata, computed |-> r.computed,
                  grid_vars |-> grid_vars, HRU_vars |-> HRU_vars]
            ELSE
                LET deleted == IF delete THEN [HRU_vars EXCEPT ![varname] = Absent]
                               ELSE HRU_vars
                IN  \* setattr(self.var, varname, outdata): reading self.var raises
                    IF "var" \notin DataAttributes
                    THEN Raises("AttributeError", r.computed, grid_vars, deleted)
                    ELSE [raised |-> None, returned |-> r.outdata, computed |-> r.computed,
                          grid_vars |-> grid_vars, HRU_vars |-> deleted]

\* ------------------------------------------------------------------------
\* Data.split_HRU_data and Data.split_HRU
\* ------------------------------------------------------------------------
\* att=None of split_HRU_data
NoAtt == <<>>

\* split_HRU_data that leaves the copy at i + 1 unscaled
split_HRU_data_unscaled_copy(a, i, att) ==
    Insert(a, i, IF att = NoAtt THEN a[i] ELSE RMul(a[i], att))

\* split_HRU_data(a, i, att) for a 1-D array a
split_HRU_data(a, i, att) ==
    LET inserted == Insert(a, i, IF att = NoAtt THEN a[i] ELSE RMul(a[i], att))
    IN  IF att = NoAtt THEN inserted
        ELSE [inserted EXCEPT ![i + 1] = RMul(RSub(RInt(1), att), inserted[i + 1])]

\* np.where(unmerged_HRU_indices == 0)[0], as the set of its values
SubcellIndices(unmerged) == {p \in DOMAIN unmerged : unmerged[p] = 0}

\* subcell_indices[split_loc:], as the set of its values
SubcellsFrom(subcell_indices, split_loc) ==
    {p \in subcell_indices :
        Cardinality({q \in subcell_indices : q < p}) >= split_loc}

\* int(subcell_indices.size * att) with att = .50
SplitLoc(subcell_indices) == Cardinality(subcell_indices) \div 2

\* SplitResult adding 1 to var_to_HRU only after the cell of the split unit
SplitResult_shifting_after(index) ==
    LET subcell_indices == SubcellIndices(unmerged_HRU_indices)
        split_loc == SplitLoc(subcell_indices)
        att == Rat(split_loc, Cardinality(subcell_indices))
        shifted == [p \in DOMAIN unmerged_HRU_indices |->
                       IF unmerged_HRU_indices[p] > index
                       THEN unmerged_HRU_indices[p] + 1
                       ELSE unmerged_HRU_indices[p]]
        moved == SubcellsFrom(subcell_indices, split_loc)
        new_HRU_to_grid == split_HRU_data(HRU_to_grid, index, NoAtt)
    IN  [unmerged_HRU_indices |->
             [p \in DOMAIN shifted |-> IF p \in moved THEN shifted[p] + 1 ELSE shifted[p]],
         HRU_to_grid |-> new_HRU_to_grid,
         var_to_HRU |->
             [i \in DOMAIN var_to_HRU |->
                 IF i > new_HRU_to_grid[index] THEN var_to_HRU[i] + 1 ELSE var_to_HRU[i]],
         var_to_HRU_uncompressed |-> var_to_HRU_uncompressed,
         land_owners |-> split_HRU_data(land_owners, index, NoAtt),
         land_use_type |-> split_HRU_data(land_use_type, index, NoAtt),
         land_use_ratio |-> split_HRU_data(land_use_ratio, index, att),
         cellArea |-> split_HRU_data(cellArea, index, att)]

\* the HRU structures after lines 610-628 of split_HRU(index)
SplitResult(index) ==
    LET subcell_indices == SubcellIndices(unmerged_HRU_indices)
        split_loc == SplitLoc(subcell_indices)
        att == Rat(split_loc, Cardinality(subcell_indices))
        shifted == [p \in DOMAIN unmerged_HRU_indices |->
                       IF unmerged_HRU_indices[p] > index
                       THEN unmerged_HRU_indices[p] + 1
                       ELSE unmerged_HRU_indices[p]]
        moved == SubcellsFrom(subcell_indices, split_loc)
        new_HRU_to_grid == split_HRU_data(HRU_to_grid, index, NoAtt)
    IN  [unmerged_HRU_indices |->
             [p \in DOMAIN shifted |-> IF p \in moved THEN shifted[p] + 1 ELSE shifted[p]],
         HRU_to_grid |-> new_HRU_to_grid,
         var_to_HRU |->
             [i \in DOMAIN var_to_HRU |->
                 IF i >= new_HRU_to_grid[index] THEN var_to_HRU[i] + 1 ELSE var_to_HRU[i]],
         var_to_HRU_uncompressed |-> var_to_HRU_uncompressed,
         land_owners |-> split_HRU_data(land_owners, index, NoAtt),
         land_use_type |-> split_HRU_data(land_use_type, index, NoAtt),
         land_use_ratio |-> split_HRU_data(land_use_ratio, index, att),
         cellArea |-> split_HRU_data(cellArea, index, att)]

\* the HRU structures after lines 610-615 of split_HRU(index), when
\* farmers.update_field_indices is called
AtUpdateFieldIndices(index) ==
    [SplitResult(index) EXCEPT !.land_use_type = land_use_type,
                               !.land_use_ratio = land_use_ratio,
                               !.cellArea = cellArea]

\* ------------------------------------------------------------------------
\* The inputs
\* ------------------------------------------------------------------------
Cells == (0..(ysize - 1)) \X (0..(xsize - 1))

SubCells == (0..(ysize * scaling - 1)) \X (0..(xsize * scaling - 1))

\* a study area has at least one cell
Masks == {m \in [Cells -> BOOLEAN] : \E c \in Cells : ~m[c]}

\* the farms of the study area; -1 is "no farm"
FarmIds == {1, 2}

\* what a sub-cell can hold, <<farm, land use class>>; class 2 is no CWatM class
Plain == <<-1, 0>>

Varied == {<<-1, 1>>, <<-1, 2>>} \cup (FarmIds \X {0, 1})

\* the same with every farm on land use class 0 and no class but 0 and 1
VariedOwnership == {<<-1, 1>>} \cup (FarmIds \X {0})

\* the sets of sub-cells that can hold something else than Plain
VariedSets == {T \in SUBSET SubCells : Cardinality(T) <= MaxVaried}

\* cell_area.tif: the area of the cell in row y, column x
cell_area_uncompressed == [c \in Cells |-> RInt(12 * (1 + c[1] * xsize + c[2]))]

\* ------------------------------------------------------------------------
\* The run: Data.__init__, then calls of split_HRU
\* ------------------------------------------------------------------------
Snapshot ==
    [land_use_type |-> land_use_type, land_use_ratio |-> land_use_ratio,
     land_owners |-> land_owners, HRU_to_grid |-> HRU_to_grid,
     var_to_HRU |-> var_to_HRU, var_to_HRU_uncompressed |-> var_to_HRU_uncompressed,
     unmerged_HRU_indices |-> unmerged_HRU_indices, cellArea |-> cellArea]

NoCaller ==
    /\ array = <<>>
    /\ dtype = "int"
    /\ fillvalue = <<"default">>
    /\ outmap = <<>>
    /\ compressed = <<>>

NoConversion ==
    /\ grid_data = <<>>
    /\ to_HRU_fn = None
    /\ HRU_data = <<>>
    /\ to_grid_fn = None
    /\ outdata = <<>>

NoHRUs ==
    /\ land_use_type = <<>>
    /\ land_use_ratio = <<>>
    /\ land_owners = <<>>
    /\ HRU_to_grid = <<>>
    /\ var_to_HRU = <<>>
    /\ var_to_HRU_uncompressed = <<>>
    /\ unmerged_HRU_indices = <<>>
    /\ cellArea = <<>>

\* no call by keyword yet, and no variable held by name
NoCall == [op |-> "none", data |-> NoValue, varname |-> None, fn |-> None, delete |-> FALSE]

NoNamed ==
    /\ grid_vars = [n \in Names |-> Absent]
    /\ HRU_vars = [n \in Names |-> Absent]
    /\ call = NoCall
    /\ returned = NoValue
    /\ computed = 0

\* the state before Data.__init__, the rasters holding Plain or a member of varied
Start(varied) ==
    /\ pc = "new"
    /\ mask \in Masks
    /\ \E S \in VariedSets : \E v \in [S -> varied] :
          /\ farms = [p \in SubCells |-> IF p \in S THEN v[p][1] ELSE Plain[1]]
          /\ land_use_classes = [p \in SubCells |-> IF p \in S THEN v[p][2] ELSE Plain[2]]
    /\ NoHRUs
    /\ old = Snapshot
    /\ last = [op |-> "none", index |-> -1, raised |-> None]
    /\ NoCaller
    /\ NoConversion
    /\ at_update_field_indices = <<>>
    /\ decompresssed = <<>>

Init == Start(Varied) /\ NoNamed

\* Data.__init__: Grid(), HRUs() with create_HRUs, HRU.cellArea
DataInit ==
    /\ pc = "new"
    /\ old' = Snapshot
    /\ \E r \in create_HRUs_numba(farms, land_use_classes, mask) :
          LET area == IF r.ok
                      THEN to_HRU_numba(compress(cell_area_uncompressed),
                                        r.var_to_HRU, r.land_use_ratio, "mean")
                      ELSE [raised |-> "AssertionError"]
          IN  IF area.raised = None
              THEN /\ pc' = "ready"
                   /\ last' = [op |-> "init", index |-> -1, raised |-> None]
                   /\ land_use_type' = r.land_use_array
                   /\ land_use_ratio' = r.land_use_ratio
                   /\ land_owners' = r.land_use_owner
                   /\ HRU_to_grid' = r.HRU_to_grid
                   /\ var_to_HRU' = r.var_to_HRU
                   /\ var_to_HRU_uncompressed' = r.var_to_HRU_uncompressed
                   /\ unmerged_HRU_indices' = r.unmerged_HRU_indices
                   /\ cellArea' = area.output_data
              ELSE /\ pc' = "failed"
                   /\ last' = [op |-> "init", index |-> -1, raised |-> area.raised]
                   /\ UNCHANGED hru
    /\ UNCHANGED <<mask, farms, land_use_classes, caller, converted,
                   at_update_field_indices, decompresssed, named>>

\* Data.split_HRU(index) for an index of a unit
split_HRU ==
    /\ pc = "ready"
    /\ old' = Snapshot
    /\ \E index \in DOMAIN land_use_type :
          LET subcell_indices == SubcellIndices(unmerged_HRU_indices)
              split_loc == SplitLoc(subcell_indices)
          IN  IF split_loc > 0 /\ split_loc < Cardinality(subcell_indices)
              THEN LET r == SplitResult(index)
                   IN  /\ pc' = "ready"
                       /\ last' = [op |-> "split", index |-> index, raised |-> None]
                       /\ unmerged_HRU_indices' = r.unmerged_HRU_indices
                       /\ HRU_to_grid' = r.HRU_to_grid
                       /\ var_to_HRU' = r.var_to_HRU
                       /\ var_to_HRU_uncompressed' = r.var_to_HRU_uncompressed
                       /\ land_owners' = r.land_owners
                       /\ land_use_type' = r.land_use_type
                       /\ land_use_ratio' = r.land_use_ratio
                       /\ cellArea' = r.cellArea
                       /\ at_update_field_indices' = AtUpdateFieldIndices(index)
              ELSE /\ pc' = "failed"
                   /\ last' = [op |-> "split", index |-> index, raised |-> "AssertionError"]
                   /\ UNCHANGED <<hru, at_update_field_indices>>
    /\ UNCHANGED <<mask, farms, land_use_classes, caller, converted, decompresssed, named>>

Next == DataInit \/ split_HRU

Spec == Init /\ [][Next]_vars

\* ------------------------------------------------------------------------
\* A caller of HRUs.decompress after Data.__init__
\* ------------------------------------------------------------------------
\* the per-unit arrays the caller decompresses, by name, with their element type
PerUnitArrays ==
    [land_owners |-> <<land_owners, "int">>,
     land_use_type |-> <<land_use_type, "int">>,
     land_use_ratio |-> <<land_use_ratio, "float">>]

HRU_decompress ==
    /\ pc = "ready"
    /\ \E name \in DOMAIN PerUnitArrays :
          /\ decompresssed' = HRUs_decompress(PerUnitArrays[name][1], PerUnitArrays[name][2],
                                               unmerged_HRU_indices, mask)
          /\ last' = [op |-> "decompress", index |-> -1, raised |-> None, of |-> name]
    /\ UNCHANGED <<pc, mask, farms, land_use_classes, hru, old, caller, converted,
                   at_update_field_indices, named>>

NextDecompress == DataInit \/ HRU_decompress

SpecDecompress == Init /\ [][NextDecompress]_vars

\* ------------------------------------------------------------------------
\* A caller of the converters: Data.to_HRU(data=..., fn=...), then
\* Data.to_grid(HRU_data=..., fn=...) on what it returned
\* ------------------------------------------------------------------------
GridArrays == [0..(compressed_size - 1) -> {RInt(n) : n \in 0..MaxVal}]

to_HRU ==
    /\ pc = "ready"
    /\ to_HRU_fn = None /\ grid_data = <<>>
    /\ old' = Snapshot
    /\ \E d \in GridArrays : \E fn \in {None, "mean"} :
          LET r == to_HRU_numba(d, var_to_HRU, land_use_ratio, fn)
          IN  /\ grid_data' = d
              /\ to_HRU_fn' = IF fn = None THEN "copy" ELSE fn
              /\ last' = [op |-> "to_HRU", index |-> -1, raised |-> r.raised]
              /\ IF r.raised = None
                 THEN pc' = "ready" /\ HRU_data' = r.output_data
                 ELSE pc' = "failed" /\ HRU_data' = HRU_data
    /\ UNCHANGED <<mask, farms, land_use_classes, hru, caller, to_grid_fn, outdata,
                   at_update_field_indices, decompresssed, named>>

to_grid ==
    /\ pc = "ready"
    /\ to_HRU_fn # None /\ to_grid_fn = None
    /\ old' = Snapshot
    /\ \E fn \in {"mean", "sum"} :
          LET r == to_grid_numba(HRU_data, var_to_HRU, land_use_ratio, fn)
          IN  /\ to_grid_fn' = fn
              /\ last' = [op |-> "to_grid", index |-> -1, raised |-> r.raised]
              /\ IF r.raised = None
                 THEN pc' = "ready" /\ outdata' = r.output_data
                 ELSE pc' = "failed" /\ outdata' = outdata
    /\ UNCHANGED <<mask, farms, land_use_classes, hru, caller, grid_data, to_HRU_fn, HRU_data,
                   at_update_field_indices, decompresssed, named>>

NextConv == DataInit \/ to_HRU \/ to_grid

InitConv == Start(VariedOwnership) /\ NoNamed

SpecConv == InitConv /\ [][NextConv]_vars

\* ------------------------------------------------------------------------
\* A caller that splits units and then converts a grid array to the units and
\* back
\* ------------------------------------------------------------------------
\* a sub-cell is Plain, unowned with land use class 1, or a field of farm 1
VariedFields == {<<-1, 1>>, <<1, 0>>}

InitSplitConv == Start(VariedFields) /\ NoNamed

\* the caller splits before it hands an array to to_HRU, not while it holds
\* the per-unit array to_HRU returned
split_HRU_before_to_HRU == to_HRU_fn = None /\ split_HRU

NextSplitConv == DataInit \/ split_HRU_before_to_HRU \/ to_HRU \/ to_grid

SpecSplitConv == InitSplitConv /\ [][NextSplitConv]_vars

\* ------------------------------------------------------------------------
\* A caller of the converters by keyword: Data.to_HRU(data=... or varname=...,
\* fn=..., delete=...), then Data.to_grid(HRU_data=... or varname=..., ...)
\* ------------------------------------------------------------------------
Scalars == {PyInt(1), PyFloat(Rat(3, 2))}

\* the grid arrays this caller holds
CallArrays == {Array([k \in 0..(compressed_size - 1) |-> RInt(k + n)]) : n \in 1..MaxVal}

\* the sub-cells that can belong to farm 1 in the runs of this caller
CallFarmed == {<<0, 0>>, <<0, xsize * scaling - 1>>}

InitCall ==
    /\ pc = "new"
    /\ mask \in Masks
    /\ \E S \in SUBSET CallFarmed :
          farms = [p \in SubCells |-> IF p \in S THEN 1 ELSE Plain[1]]
    /\ land_use_classes = [p \in SubCells |-> Plain[2]]
    /\ NoHRUs
    /\ old = Snapshot
    /\ last = [op |-> "none", index |-> -1, raised |-> None]
    /\ NoCaller
    /\ NoConversion
    /\ at_update_field_indices = <<>>
    /\ decompresssed = <<>>
    /\ grid_vars \in [Names -> {Absent} \cup Scalars \cup CallArrays]
    /\ HRU_vars = [n \in Names |-> Absent]
    /\ call = NoCall
    /\ returned = NoValue
    /\ computed = 0

\* the end of a call by keyword that went as r says
EndOfCall(r) ==
    /\ pc' = IF r.raised = None THEN "ready" ELSE "failed"
    /\ returned' = r.returned
    /\ computed' = r.computed
    /\ grid_vars' = r.grid_vars
    /\ HRU_vars' = r.HRU_vars

call_to_HRU ==
    /\ pc = "ready"
    /\ call.op = "none"
    /\ old' = Snapshot
    /\ \E data \in {NoValue} \cup Scalars \cup CallArrays :
       \E varname \in {None} \cup Names :
       \E fn \in {None, "mean", "sum"} :
       \E delete \in IF varname = None THEN {TRUE} ELSE BOOLEAN :
          /\ call' = [op |-> "to_HRU", data |-> data, varname |-> varname,
                      fn |-> fn, delete |-> delete]
          /\ last' = [op |-> "to_HRU", index |-> -1,
                      raised |-> Data_to_HRU(data, varname, fn, delete).raised]
          /\ EndOfCall(Data_to_HRU(data, varname, fn, delete))
    /\ UNCHANGED <<mask, farms, land_use_classes, hru, caller, converted,
                   at_update_field_indices, decompresssed>>

call_to_grid ==
    /\ pc = "ready"
    /\ call.op = "to_HRU"
    /\ old' = Snapshot
    /\ \E data \in {NoValue, returned} \cup Scalars :
       \E varname \in {None} \cup Names :
       \E fn \in {None, "median"} \cup Reductions :
       \E delete \in IF varname = None THEN {TRUE} ELSE BOOLEAN :
          /\ call' = [op |-> "to_grid", data |-> data, varname |-> varname,
                      fn |-> fn, delete |-> delete]
          /\ last' = [op |-> "to_grid", index |-> -1,
                      raised |-> Data_to_grid(data, varname, fn, delete).raised]
          /\ EndOfCall(Data_to_grid(data, varname, fn, delete))
    /\ UNCHANGED <<mask, farms, land_use_classes, hru, caller, converted,
                   at_update_field_indices, decompresssed>>

NextCall == DataInit \/ call_to_HRU \/ call_to_grid

SpecCall == InitCall /\ [][NextCall]_vars

\* ------------------------------------------------------------------------
\* A caller of Grid: decompress(array, fillvalue), then compress of the result
\* ------------------------------------------------------------------------
FillValues == {<<"default">>, <<"nan">>, <<"num", 0>>, <<"num", MaxVal + 5>>}

InitGrid ==
    /\ pc = "grid"
    /\ mask \in [Cells -> BOOLEAN]
    /\ farms = <<>>
    /\ land_use_classes = <<>>
    /\ NoHRUs
    /\ old = Snapshot
    /\ last = [op |-> "none", index |-> -1, raised |-> None]
    /\ array \in [0..(compressed_size - 1) -> 0..MaxVal]
    /\ dtype \in {"int", "float"}
    /\ fillvalue \in FillValues
    /\ outmap = <<>>
    /\ compressed = <<>>
    /\ NoConversion
    /\ at_update_field_indices = <<>>
    /\ decompresssed = <<>>
    /\ NoNamed

Grid_decompress ==
    /\ pc = "grid"
    /\ IF CanFill(fillvalue, dtype)
       THEN /\ pc' = "decompressed"
            /\ outmap' = decompress(array, dtype, fillvalue)
            /\ last' = [op |-> "decompress", index |-> -1, raised |-> None]
       ELSE /\ pc' = "failed"
            /\ outmap' = outmap
            /\ last' = [op |-> "decompress", index |-> -1, raised |-> "ValueError"]
    /\ UNCHANGED <<mask, farms, land_use_classes, hru, old, array, dtype, fillvalue,
                   compressed, converted, at_update_field_indices, decompresssed, named>>

Grid_compress ==
    /\ pc = "decompressed"
    /\ pc' = "compressed"
    /\ compressed' = compress(outmap)
    /\ last' = [op |-> "compress", index |-> -1, raised |-> None]
    /\ UNCHANGED <<mask, farms, land_use_classes, hru, old, array, dtype, fillvalue,
                   outmap, converted, at_update_field_indices, decompresssed, named>>

NextGrid == Grid_decompress \/ Grid_compress

SpecGrid == InitGrid /\ [][NextGrid]_vars

\* ------------------------------------------------------------------------
\* Properties
\* ------------------------------------------------------------------------
\* Data.__init__ has just returned
Built == last.op = "init" /\ last.raised = None

\* split_HRU(last.index) has just returned
SplitDone == last.op = "split" /\ last.raised = None

\* the sum of ratios over the units of compressed cell i
CellRatioSum(lur, v2h, i) == RSum(Slice(lur, PrevIndex(v2h, i), v2h[i]))

\* the sub-cells that unmerged maps to unit u
SubcellsOf(unmerged, u) == {p \in DOMAIN unmerged : unmerged[p] = u}

\* the entries of unmerged_HRU_indices that belong to compressed cell i
CellEntries(i) == (i * scaling * scaling)..((i + 1) * scaling * scaling - 1)

\* C1: Grid round trip: for every mask, every compressed array of length
\* compressed_size and every fill value that decompress accepts (the default
\* included), compress(decompress(x, fill)) equals x element for element.
C1_GridRoundTrip ==
    pc = "compressed" =>
        /\ Size(compressed) = Size(array)
        /\ \A k \in DOMAIN array : compressed[k] = array[k]

C1_Witness ==
    /\ pc = "compressed"
    /\ Size(array) >= 1
    /\ \E c \in Cells : mask[c]
    /\ fillvalue = <<"num", MaxVal + 5>>

\* C2: Builder area conservation: after the build, for every compressed cell i
\* the land_use_ratio values of the units in [var_to_HRU[i-1], var_to_HRU[i])
\* sum to 1, every such ratio is the number of sub-cells mapped to the unit
\* over scaling^2, and those sub-cells all lie in cell i: every sub-cell of
\* every non-masked cell is counted in exactly one unit.
C2_AreaConservation ==
    Built =>
        \A i \in DOMAIN var_to_HRU :
            /\ CellRatioSum(land_use_ratio, var_to_HRU, i) = RInt(1)
            /\ \A u \in PrevIndex(var_to_HRU, i)..(var_to_HRU[i] - 1) :
                  /\ SubcellsOf(unmerged_HRU_indices, u) \subseteq CellEntries(i)
                  /\ land_use_ratio[u] =
                        Rat(Cardinality(SubcellsOf(unmerged_HRU_indices, u)),
                            scaling * scaling)

C2_Witness ==
    /\ Built
    /\ \E i \in DOMAIN var_to_HRU : var_to_HRU[i] - PrevIndex(var_to_HRU, i) >= 3
    /\ \E c \in Cells : mask[c]

\* C3: Builder back-mapping is total and surjective: after the build,
\* unmerged_HRU_indices has scaling^2 entries per non-masked cell, every entry
\* is a unit index in [0, unit_count), and every unit index is the value of at
\* least one entry.
C3_BackMapping ==
    Built =>
        /\ Size(unmerged_HRU_indices) = compressed_size * scaling * scaling
        /\ \A p \in DOMAIN unmerged_HRU_indices :
              unmerged_HRU_indices[p] \in 0..(Size(land_use_type) - 1)
        /\ \A u \in DOMAIN land_use_type : SubcellsOf(unmerged_HRU_indices, u) # {}

C3_Witness ==
    /\ Built
    /\ compressed_size = 2
    /\ Size(land_use_type) >= 4
    /\ Size(land_use_type) < Size(unmerged_HRU_indices)

\* the reference the builder is compared with, for the k-th non-masked cell
RefFarms(k) == CellBlock(farms, NonMaskedAt(k) \div xsize, NonMaskedAt(k) % xsize)

RefLandUse(k) == CellBlock(land_use_classes, NonMaskedAt(k) \div xsize, NonMaskedAt(k) % xsize)

RefFarmIds(k) == {RefFarms(k)[q] : q \in DOMAIN RefFarms(k)} \ {-1}

RefUnownedClasses(k) == {RefLandUse(k)[q] : q \in {t \in DOMAIN RefFarms(k) : RefFarms(k)[t] = -1}}

RefUnitCount(k) == Cardinality(RefFarmIds(k)) + Cardinality(RefUnownedClasses(k))

RECURSIVE RefEnd(_)
RefEnd(k) == IF k < 0 THEN 0 ELSE RefEnd(k - 1) + RefUnitCount(k)

RankIn(x, S) == Cardinality({y \in S : y < x})

\* the unit of every sub-cell q of the k-th non-masked cell
RefUnits(k) ==
    LET cell_farms == RefFarms(k)
        cell_classes == RefLandUse(k)
        ids == RefFarmIds(k)
        classes == RefUnownedClasses(k)
        first == RefEnd(k - 1)
    IN  [q \in DOMAIN cell_farms |->
            IF cell_farms[q] # -1
            THEN first + RankIn(cell_farms[q], ids)
            ELSE first + Cardinality(ids) + RankIn(cell_classes[q], classes)]

\* C4: Builder result against a reference: visiting the non-masked cells in
\* row-major order the builder emits, per cell, one unit per farm id of the
\* cell in ascending order (owner the farm, land use a class carried by that
\* farm's sub-cells in the cell), then one unit per land use class of the
\* cell's unowned sub-cells in ascending order (owner -1); each ratio is the
\* unit's sub-cell count over scaling^2, var_to_HRU[i] is the cumulative unit
\* count, and unmerged_HRU_indices holds at each sub-cell's row-major position
\* the index of its unit.
C4_BuilderReference ==
    Built =>
        /\ Size(land_use_type) = RefEnd(compressed_size - 1)
        /\ \A k \in DOMAIN var_to_HRU :
              LET cell_farms == RefFarms(k)
                  cell_classes == RefLandUse(k)
                  unit == RefUnits(k)
              IN  /\ var_to_HRU[k] = RefEnd(k)
                  /\ \A q \in DOMAIN cell_farms :
                        LET u == unit[q]
                            same == {t \in DOMAIN cell_farms : unit[t] = u}
                        IN  /\ unmerged_HRU_indices[k * scaling * scaling + q] = u
                            /\ land_owners[u] = cell_farms[q]
                            /\ land_use_type[u] \in {cell_classes[t] : t \in same}
                            /\ cell_farms[q] = -1 => land_use_type[u] = cell_classes[q]
                            /\ land_use_ratio[u] = Rat(Cardinality(same), scaling * scaling)

C4_Witness ==
    /\ Built
    /\ \E k \in DOMAIN var_to_HRU :
          /\ Cardinality(RefFarmIds(k)) = 2
          /\ RefFarms(k)[0] = 2
    /\ mask[<<0, 0>>]

\* to_HRU(fn='mean') and then to_grid(fn='mean') have returned
MeanRoundTrip ==
    /\ last.op = "to_grid" /\ last.raised = None
    /\ to_HRU_fn = "mean" /\ to_grid_fn = "mean"

UnitsOfCell(v2h, i) == v2h[i] - PrevIndex(v2h, i)

SumOfSquares(lur, v2h, i) ==
    LET r == Slice(lur, PrevIndex(v2h, i), v2h[i])
    IN  RSum([k \in DOMAIN r |-> RMul(r[k], r[k])])

\* C5 as claimed: aggregating with fn='mean' the area-weighted disaggregation
\* of g returns g for every grid cell.
C5_MeanRoundTripClaimed ==
    MeanRoundTrip => \A i \in DOMAIN grid_data : outdata[i] = grid_data[i]

\* C5 as amended: aggregating with fn='mean' the area-weighted disaggregation
\* of g returns, for every grid cell i, g[i] times the sum of the squares of
\* the land_use_ratio values of the cell's units: this is g[i] for a cell
\* that contains exactly one unit, and differs from g[i] for a cell with more
\* than one unit unless g[i] = 0.
C5_MeanRoundTrip ==
    MeanRoundTrip =>
        \A i \in DOMAIN grid_data :
            /\ outdata[i] = RMul(grid_data[i], SumOfSquares(land_use_ratio, var_to_HRU, i))
            /\ UnitsOfCell(var_to_HRU, i) = 1 => outdata[i] = grid_data[i]
            /\ (UnitsOfCell(var_to_HRU, i) > 1 /\ grid_data[i] # RInt(0))
                   => outdata[i] # grid_data[i]

C5_Witness ==
    /\ MeanRoundTrip
    /\ \E i \in DOMAIN grid_data :
          UnitsOfCell(var_to_HRU, i) = 3 /\ grid_data[i] = RInt(MaxVal)
    /\ \E i \in DOMAIN grid_data :
          UnitsOfCell(var_to_HRU, i) = 1 /\ grid_data[i] = RInt(1)

\* C6: split relabels the sub-cells of the unit being split: with S the
\* ascending sub-cell positions of unit index before the call, the first
\* floor(|S|/2) of them still map to index, the others map to index + 1, every
\* sub-cell of a unit u > index maps to u + 1, every sub-cell of a unit
\* u < index is unchanged, and unmerged_HRU_indices is onto the new units.
C6_SplitRelabels ==
    SplitDone =>
        LET index == last.index
            S == SubcellsOf(old.unmerged_HRU_indices, index)
            k == Cardinality(S) \div 2
        IN  /\ \A p \in DOMAIN old.unmerged_HRU_indices :
                  LET u == old.unmerged_HRU_indices[p]
                  IN  unmerged_HRU_indices[p] =
                          IF u < index THEN u
                          ELSE IF u > index THEN u + 1
                          ELSE IF RankIn(p, S) < k THEN index
                          ELSE index + 1
            /\ \A u \in DOMAIN land_use_type : SubcellsOf(unmerged_HRU_indices, u) # {}

RLess(p, q) == p[1] * q[2] < q[1] * p[2]

\* C7: split conserves area per grid cell: after a successful split_HRU(index)
\* the new land_use_ratio[index] and land_use_ratio[index + 1] are both
\* positive and add up to the old land_use_ratio[index], and for every
\* compressed cell the sum of land_use_ratio over its unit range under the
\* updated var_to_HRU is what it was, 1, after any sequence of splits.
C7_SplitConservesArea ==
    /\ pc = "ready" =>
          \A i \in DOMAIN var_to_HRU :
              CellRatioSum(land_use_ratio, var_to_HRU, i) = RInt(1)
    /\ SplitDone =>
          LET index == last.index
          IN  /\ RAdd(land_use_ratio[index], land_use_ratio[index + 1])
                     = old.land_use_ratio[index]
              /\ RLess(RInt(0), land_use_ratio[index])
              /\ RLess(RInt(0), land_use_ratio[index + 1])
              /\ \A i \in DOMAIN var_to_HRU :
                    CellRatioSum(land_use_ratio, var_to_HRU, i)
                        = CellRatioSum(old.land_use_ratio, old.var_to_HRU, i)

C7_Witness ==
    /\ SplitDone
    /\ old.unmerged_HRU_indices # unmerged_HRU_indices
    /\ last.index > 0
    /\ Size(var_to_HRU) = 2
    /\ HRU_to_grid[last.index] = 0
    /\ old.land_use_ratio[last.index] # RInt(1)
    /\ Size(land_use_type) >= 5

\* C8: split inserts exactly one unit and leaves the others untouched: after a
\* successful split_HRU(index), HRU_to_grid, land_owners, land_use_type and
\* land_use_ratio are one longer, hold their old values below index, hold the
\* old value of u at u + 1 for every u > index, and HRU_to_grid, land_owners
\* and land_use_type hold the old value of index at index and at index + 1.
C8_SplitInsertsOneUnit ==
    SplitDone =>
        LET index == last.index
            n == Size(old.land_use_type)
            Shifted(new, was) ==
                /\ Size(new) = n + 1
                /\ Size(was) = n
                /\ \A u \in 0..(index - 1) : new[u] = was[u]
                /\ \A u \in (index + 1)..(n - 1) : new[u + 1] = was[u]
            Duplicated(new, was) == new[index] = was[index] /\ new[index + 1] = was[index]
        IN  /\ Shifted(HRU_to_grid, old.HRU_to_grid)
            /\ Shifted(land_owners, old.land_owners)
            /\ Shifted(land_use_type, old.land_use_type)
            /\ Shifted(land_use_ratio, old.land_use_ratio)
            /\ Duplicated(HRU_to_grid, old.HRU_to_grid)
            /\ Duplicated(land_owners, old.land_owners)
            /\ Duplicated(land_use_type, old.land_use_type)

C8_Witness ==
    /\ SplitDone
    /\ last.index > 0
    /\ last.index < Size(old.land_use_type) - 1
    /\ old.land_owners[last.index] # -1
    /\ old.land_owners[last.index + 1] = -1
    /\ old.HRU_to_grid[last.index - 1] # old.HRU_to_grid[last.index]

\* C9: split underflow is fatal and leaves the state unchanged: split_HRU(index)
\* on a unit that owns fewer than two sub-cells fails with an error, a failed
\* split leaves every HRU structure as it was, and a split that succeeds
\* leaves both the unit at index and the new unit with at least one sub-cell.
C9_SplitUnderflow ==
    last.op = "split" =>
        /\ Cardinality(SubcellsOf(old.unmerged_HRU_indices, last.index)) < 2
               => last.raised # None
        /\ last.raised # None => Snapshot = old
        /\ last.raised = None =>
              /\ SubcellsOf(unmerged_HRU_indices, last.index) # {}
              /\ SubcellsOf(unmerged_HRU_indices, last.index + 1) # {}

\* the k-th non-masked cell holds a farm whose sub-cells carry several classes
MixedFarm(k) ==
    \E f \in RefFarmIds(k) :
        Cardinality({RefLandUse(k)[q] : q \in {t \in DOMAIN RefFarms(k) : RefFarms(k)[t] = f}}) > 1

\* C10: the builder rejects a farm with mixed land use: if within one
\* non-masked cell the sub-cells of one farm carry more than one land use
\* class, create_HRUs_numba ends in an error and returns no index structures.
C10_MixedFarmRejected ==
    (last.op = "init" /\ \E k \in 0..(compressed_size - 1) : MixedFarm(k))
        => last.raised # None

\* the step is a call of Data.to_HRU, or of Data.to_grid, by keyword
IsCallToHRU == call.op = "none" /\ call'.op = "to_HRU"

IsCallToGrid == call.op = "to_HRU" /\ call'.op = "to_grid"

\* the value the call of this step converts, taken from the container when the
\* call names a variable
InputOfCall(container) ==
    IF call'.data.kind = "None" /\ call'.varname # None
    THEN container[call'.varname]
    ELSE call'.data

\* C11: an unknown reduction name is fatal before any work: for array input,
\* to_HRU with fn outside {None, 'mean'} and to_grid with fn outside
\* {'mean', 'sum', 'nansum', 'max', 'min'} always end in an error, and no
\* element of the output has been computed from the input when it is raised.
C11_UnknownReductionFatal ==
    [][/\ (IsCallToHRU /\ InputOfCall(grid_vars).kind = "array"
               /\ call'.fn \notin {None, "mean"})
            => (last'.raised # None /\ computed' = 0 /\ returned'.kind = "None")
       /\ (IsCallToGrid /\ InputOfCall(HRU_vars).kind = "array"
               /\ call'.fn \notin Reductions)
            => (last'.raised # None /\ computed' = 0 /\ returned'.kind = "None")]_vars

C11_Witness ==
    /\ call.op = "to_grid"
    /\ call.fn = "median"
    /\ call.data.kind = "array"
    /\ call.varname = None
    /\ last.raised = "NotImplementedError"
    /\ Size(var_to_HRU) = 2
    /\ Size(land_use_type) = 4

\* C12: scalar pass-through in both directions: when the data given to to_HRU
\* or to to_grid is a scalar, an integer or a float, (and the arguments pass
\* the assertions at the head of the method) the call returns that same value
\* unchanged and computes nothing from var_to_HRU or land_use_ratio.
C12_ScalarPassThrough ==
    [][((IsCallToHRU \/ (IsCallToGrid /\ call'.fn # None))
           /\ call'.varname = None
           /\ call'.data.kind \in {"int", "float"})
        => (/\ last'.raised = None
            /\ returned' = call'.data
            /\ computed' = 0)]_vars

\* the grid cell of a sub-cell
CellOf(p) == <<p[1] \div scaling, p[2] \div scaling>>

\* HRUs.decompress(land_owners) has just returned
OwnersDecompressed == last.op = "decompress" /\ last.of = "land_owners"

\* C13: HRU decompression inverts the builder's sub-cell assignment: for the
\* builder's output, HRUs.decompress(land_owners) is a (ysize * scaling) by
\* (xsize * scaling) array that equals the farms raster at every sub-cell of
\* every non-masked cell and holds -1 at every sub-cell of every masked cell.
C13_DecompressInvertsBuilder ==
    OwnersDecompressed =>
        /\ DOMAIN decompresssed = SubCells
        /\ \A p \in SubCells :
              decompresssed[p] = IF mask[CellOf(p)] THEN -1 ELSE farms[p]

C13_Witness ==
    /\ OwnersDecompressed
    /\ \E p \in SubCells : mask[CellOf(p)] /\ farms[p] # -1
    /\ \E p, q \in SubCells :
          /\ CellOf(p) = CellOf(q) /\ ~mask[CellOf(p)]
          /\ p[1] < q[1] /\ p[2] > q[2]
          /\ farms[p] = 2 /\ farms[q] = -1

\* C14: in every state reached by a build followed by any sequence of
\* successful split_HRU calls, var_to_HRU is strictly increasing and its last
\* entry is the number of units, the length of land_use_type and of
\* land_use_ratio: the precondition of the converters holds between operations.
C14_VarToHRUIncreasing ==
    pc = "ready" =>
        /\ \A i \in DOMAIN var_to_HRU : i > 0 => var_to_HRU[i - 1] < var_to_HRU[i]
        /\ var_to_HRU[Size(var_to_HRU) - 1] = Size(land_use_type)
        /\ var_to_HRU[Size(var_to_HRU) - 1] = Size(land_use_ratio)

C14_Witness ==
    /\ SplitDone
    /\ Size(var_to_HRU) = 2
    /\ HRU_to_grid[last.index] = 0
    /\ Size(old.land_use_type) = RefEnd(compressed_size - 1) + 1
    /\ var_to_HRU[0] >= 3

\* C15: in every state reached by a build followed by any sequence of
\* successful split_HRU calls, var_to_HRU_uncompressed holds for each cell of
\* the full grid the same exclusive-end unit index as var_to_HRU: var_to_HRU[k]
\* at the k-th non-masked cell, and at a masked cell the value of the cell
\* before it (0 if there is none).
C15_UncompressedFollows ==
    pc = "ready" =>
        \A p \in DOMAIN var_to_HRU_uncompressed :
            /\ ~mask_flat[p] => var_to_HRU_uncompressed[p] = var_to_HRU[NonMaskedBefore(p)]
            /\ mask_flat[p] =>
                  var_to_HRU_uncompressed[p] =
                      IF p = 0 THEN 0 ELSE var_to_HRU_uncompressed[p - 1]

\* C16: ordering of the owner-index callback: split_HRU calls
\* farmers.update_field_indices only after the split is complete: at the call
\* unmerged_HRU_indices, var_to_HRU, HRU_to_grid, land_owners, land_use_type,
\* land_use_ratio and cellArea have all been updated, and all per-unit arrays
\* have the same length, var_to_HRU[-1].
C16_CallbackAfterSplit ==
    SplitDone =>
        LET c == at_update_field_indices
            n == c.var_to_HRU[Size(c.var_to_HRU) - 1]
        IN  /\ c.unmerged_HRU_indices = unmerged_HRU_indices
            /\ c.var_to_HRU = var_to_HRU
            /\ c.HRU_to_grid = HRU_to_grid
            /\ c.land_owners = land_owners
            /\ c.land_use_type = land_use_type
            /\ c.land_use_ratio = land_use_ratio
            /\ c.cellArea = cellArea
            /\ Size(c.HRU_to_grid) = n
            /\ Size(c.land_owners) = n
            /\ Size(c.land_use_type) = n
            /\ Size(c.land_use_ratio) = n
            /\ Size(c.cellArea) = n

\* the step is a call that names a variable
IsCallByName == (IsCallToHRU \/ IsCallToGrid) /\ call'.data.kind = "None" /\ call'.varname # None

\* C17: variable transfer by name does not lose data: to_grid(varname=v, fn=f,
\* delete=True) with a supported f on an existing per-unit array v completes
\* with the aggregated array stored on the grid container under v and v
\* removed from the HRU container, and no call by name ends with v deleted
\* from its source container while the converted result is stored nowhere.
C17_TransferByName ==
    [][/\ (/\ IsCallToGrid /\ IsCallByName
            /\ call'.fn \in Reductions /\ call'.delete
            /\ HRU_vars[call'.varname].kind = "array")
           => (/\ last'.raised = None
               /\ returned'.kind = "array"
               /\ grid_vars'[call'.varname] = returned'
               /\ HRU_vars'[call'.varname].kind = "absent")
       /\ (IsCallToHRU /\ IsCallByName
               /\ grid_vars[call'.varname].kind # "absent"
               /\ grid_vars'[call'.varname].kind = "absent")
           => (last'.raised = None /\ HRU_vars'[call'.varname] = returned')
       /\ (IsCallToGrid /\ IsCallByName
               /\ HRU_vars[call'.varname].kind # "absent"
               /\ HRU_vars'[call'.varname].kind = "absent")
           => (last'.raised = None /\ grid_vars'[call'.varname] = returned')]_vars

\* to_HRU(fn='mean') and then to_grid(fn='sum') have returned
SumRoundTrip ==
    /\ last.op = "to_grid" /\ last.raised = None
    /\ to_HRU_fn = "mean" /\ to_grid_fn = "sum"

\* C18: the area-weighted disaggregation conserves the cell total: for every
\* index structure reached by the build and successful splits and every
\* compressed grid array g, to_grid_numba(to_HRU_numba(g, 'mean'), 'sum')
\* equals g at every grid cell; HRU.cellArea, which Data.__init__ derives this
\* way and split_HRU splits, sums to the grid's cell area in every cell.
C18_SumRoundTrip ==
    /\ SumRoundTrip =>
          /\ Size(outdata) = Size(grid_data)
          /\ \A i \in DOMAIN grid_data : outdata[i] = grid_data[i]
    /\ pc = "ready" =>
          to_grid_numba(cellArea, var_to_HRU, land_use_ratio, "sum").output_data
              = compress(cell_area_uncompressed)

C18_Witness ==
    /\ SumRoundTrip
    /\ Size(land_use_type) = RefEnd(compressed_size - 1) + 2
    /\ \E i \in DOMAIN grid_data :
          UnitsOfCell(var_to_HRU, i) >= 3 /\ grid_data[i] = RInt(MaxVal)
    /\ \E u \in DOMAIN land_use_ratio : land_use_ratio[u] = Rat(1, scaling * scaling)

\* C19: HRU_to_grid and var_to_HRU describe the same partition of the units
\* into grid cells in every state reached by a build followed by any sequence
\* of successful splits: HRU_to_grid[u] = i exactly when
\* var_to_HRU[i - 1] (0 for i = 0) <= u < var_to_HRU[i]; HRU_to_grid is
\* non-decreasing and the two units a split results in are in the same cell.
C19_SamePartition ==
    /\ pc = "ready" =>
          /\ \A u \in DOMAIN HRU_to_grid : \A i \in DOMAIN var_to_HRU :
                (HRU_to_grid[u] = i)
                    <=> (PrevIndex(var_to_HRU, i) <= u /\ u < var_to_HRU[i])
          /\ \A u \in DOMAIN HRU_to_grid :
                u > 0 => HRU_to_grid[u - 1] <= HRU_to_grid[u]
    /\ SplitDone =>
          /\ HRU_to_grid[last.index] = HRU_to_grid[last.index + 1]
          /\ HRU_to_grid[last.index] = old.HRU_to_grid[last.index]

C19_Witness ==
    /\ SplitDone
    /\ Size(var_to_HRU) = 2
    /\ HRU_to_grid[0] # HRU_to_grid[1]
    /\ HRU_to_grid[last.index] = 1
    /\ last.index + 1 < Size(HRU_to_grid) - 1

====
